---- MODULE Spec2Model ----
(***************************************************************************)
(* A model of ctemplate (src/src/ctemplate.ts and the Clib helper class).  *)
(*                                                                         *)
(*   SpecConfig : the configuration fold of processFiles, with merge and   *)
(*                explode computed on a heap of JavaScript objects, so     *)
(*                that in-place mutation and aliasing are those of the     *)
(*                code.                                                    *)
(*   SpecRun    : the pipeline of processFiles: config, schema             *)
(*                verification, the per-file loop and its blocks, with     *)
(*                die() ending the process.                                *)
(*   SpecScan   : the block regex of processFiles applied to a template    *)
(*                text by String.replace.                                  *)
(*   SpecFormat : Clib.format, its three regex passes computed character   *)
(*                by character.                                            *)
(***************************************************************************)
EXTENDS Integers, Sequences, FiniteSets, TLC

VARIABLES
    cfgFiles,   \* the parsed config sources still to be applied, in discovery order
    cfgPos,     \* index of the next config source
    cfgHeap,    \* the JavaScript heap: object id -> ordered own properties
    cfgStep,    \* what the last application of a config source did
    cfgState    \* "run", "done" or "dead" (die() was called)

VARIABLES
    pc,         \* where processFiles is: "readConfig" ... "done", or "dead" after die()
    nSchemas,   \* schema documents discovered
    nFiles,     \* input files given
    outputOpt,  \* options.output is set
    schemaIdx,  \* the schema document forEach is at
    fileIdx,    \* the input file the for loop is at
    nBlocks,    \* blocks in the text of the current file
    matches,    \* the matches of the block regex still to be replaced
    evalLog,    \* the blocks of the current file evaluated so far, in order, and what each did
    sandbox,    \* the sandbox object's user defined globals: name -> who defined it
    config,     \* the config object's keys: key -> who last set it
    seen,       \* what the last evaluated block could see
    lastWrite,  \* the last writeFileSync: the file and the preamble it used
    failed      \* die() has been called

VARIABLES
    scanIn,     \* the template: texts and blocks in turn, as the author wrote them
    scanOut,    \* what String.replace returned for it
    scanState,  \* "in" or "done"
    fmtIn,      \* the tokens of the code handed to format
    fmtIndent,  \* initialIndent
    fmtOut,     \* what format returned
    fmtState,   \* "in", "scan" or "done"
    fmtScan     \* the second replace in progress: text, position, closure, calls

cfgVars == <<cfgFiles, cfgPos, cfgHeap, cfgStep, cfgState>>
runVars == <<pc, nSchemas, nFiles, outputOpt, schemaIdx, fileIdx, nBlocks, matches,
             evalLog, sandbox, config, seen, lastWrite, failed>>

scanVars == <<scanIn, scanOut, scanState>>
fmtVars == <<fmtIn, fmtIndent, fmtOut, fmtState, fmtScan>>
textVars == <<scanVars, fmtVars>>

vars == <<cfgVars, runVars, scanVars, fmtVars>>

(***************************************************************************)
(* Bounds.                                                                 *)
(***************************************************************************)
MaxTreeSize == 4    \* properties (at any depth) of a config source applied alone
MaxPairSize == 2    \* properties of each of two config sources applied in a row
MaxSchemas == 2     \* schema documents of a run
MaxFiles == 2       \* input files of a run
MaxBlocks == 2      \* blocks in the text of one input file
MaxText == 2        \* characters of a text between the blocks of a template
MaxTokens == 3      \* tokens of a code string given to format
MaxIndent == 1      \* initialIndent given to format
MaxScanTokens == 5  \* tokens of a code string whose scan is followed match by match

(***************************************************************************)
(* JavaScript values.  A property key is the sequence of its dot separated *)
(* segments: "a.b" is <<"a", "b">>, so key.split(".") is the key itself    *)
(* and path.join(".") is concatenation.  A value is a scalar, an array of  *)
(* scalars, a reference to a dict on the heap, a function (only inherited  *)
(* from Object.prototype) or undefined.                                    *)
(***************************************************************************)
Scalar(n) == [t |-> "s", x |-> <<n>>]
Arr(s)    == [t |-> "a", x |-> s]
Ref(id)   == [t |-> "d", x |-> <<id>>]
Function  == [t |-> "f", x |-> <<>>]
Undefined == [t |-> "u", x |-> <<>>]

isDict(v) == v.t = "d"
isArray(v) == v.t = "a"

\* The members every object literal inherits from Object.prototype (one of them).
ObjectPrototypeKeys == {<<"constructor">>}

keyIdx(obj, key) ==
    IF \E i \in 1..Len(obj) : obj[i].k = key
    THEN CHOOSE i \in 1..Len(obj) : obj[i].k = key
    ELSE 0

\* key in obj
hasKey(obj, key) == keyIdx(obj, key) > 0 \/ key \in ObjectPrototypeKeys

\* obj[key]
getKey(obj, key) ==
    IF keyIdx(obj, key) > 0 THEN obj[keyIdx(obj, key)].v
    ELSE IF key \in ObjectPrototypeKeys THEN Function
    ELSE Undefined

\* obj[key] = v : an existing property keeps its place, a new one goes last
setKey(obj, key, v) ==
    IF keyIdx(obj, key) > 0
    THEN [obj EXCEPT ![keyIdx(obj, key)] = [k |-> key, v |-> v]]
    ELSE Append(obj, [k |-> key, v |-> v])

\* delete obj[key]
deleteKey(obj, key) ==
    LET j == keyIdx(obj, key)
    IN  IF j = 0 THEN obj
        ELSE [i \in 1..(Len(obj) - 1) |-> IF i < j THEN obj[i] ELSE obj[i + 1]]

\* Object.keys(obj)
ObjectKeys(obj) == [i \in 1..Len(obj) |-> obj[i].k]

Returned(h) == [ok |-> TRUE, h |-> h, msg |-> <<>>]
\* throw new Error(`merging of key '${path.join(".")}' failed`)
Thrown(h, path) == [ok |-> FALSE, h |-> h, msg |-> path]

(***************************************************************************)
(* merge(dest, src, path), on heap h.                                      *)
(***************************************************************************)
RECURSIVE merge(_, _, _, _)
RECURSIVE mergeLoop(_, _, _, _, _)

mergeLoop(r, dest, src, path, i) ==
    IF ~r.ok \/ i > Len(r.h[src]) THEN r
    ELSE
        LET h   == r.h
            key == h[src][i].k
            sv  == h[src][i].v
            dv  == getKey(h[dest], key)
        IN  IF hasKey(h[dest], key)
            THEN IF isDict(dv) /\ isDict(sv)
                 THEN mergeLoop(merge(h, dv.x[1], sv.x[1], path \o key),
                                dest, src, path, i + 1)
                 ELSE IF isArray(dv) /\ isArray(sv)
                 THEN mergeLoop(Returned([h EXCEPT ![dest] =
                                    setKey(@, key, Arr(dv.x \o sv.x))]),
                                dest, src, path, i + 1)
                 ELSE Thrown(h, path \o key)
            ELSE mergeLoop(Returned([h EXCEPT ![dest] = setKey(@, key, sv)]),
                           dest, src, path, i + 1)

merge(h, dest, src, path) == mergeLoop(Returned(h), dest, src, path, 1)

(***************************************************************************)
(* explode(o, path), on heap h.                                            *)
(***************************************************************************)
\* const head = {}; const tail = list.slice(0, -1).reduce(...); tail[last] = value
\* The new objects are head, then one per segment but the last.
explodeChain(h, list, value) ==
    LET n    == Len(list)
        base == Len(h)
        obj(i) == IF i < n
                  THEN <<[k |-> <<list[i]>>, v |-> Ref(base + i + 1)]>>
                  ELSE <<[k |-> <<list[n]>>, v |-> value]>>
    IN  [h |-> h \o [i \in 1..n |-> obj(i)], id |-> base + 1]

RECURSIVE explode(_, _, _)
RECURSIVE explodeLoop(_, _, _, _, _)

explodeLoop(r, o, path, keys, i) ==
    IF ~r.ok \/ i > Len(keys) THEN r
    ELSE
        LET h     == r.h
            key   == keys[i]
            list  == key
            value == getKey(h[o], key)
        IN  IF Len(list) > 1
            THEN LET c == explodeChain([h EXCEPT ![o] = deleteKey(@, key)], list, value)
                     m == merge(c.h, o, c.id, Append(path, list[1]))
                 IN  IF ~m.ok THEN m
                     ELSE IF isDict(value)
                     THEN explodeLoop(explode(m.h, value.x[1], list), o, path, keys, i + 1)
                     ELSE explodeLoop(m, o, path, keys, i + 1)
            ELSE IF isDict(value)
            THEN explodeLoop(explode(h, value.x[1], path \o key), o, path, keys, i + 1)
            ELSE explodeLoop(r, o, path, keys, i + 1)

explode(h, o, path) == explodeLoop(Returned(h), o, path, ObjectKeys(h[o]), 1)

(***************************************************************************)
(* Parsed config sources.  JSON.parse yields a tree: a dict is its ordered *)
(* properties, a node is a scalar (t = "s", n = <<value>>), an array of    *)
(* scalars (t = "a", n = elements) or a dict (t = "d", c = properties).    *)
(***************************************************************************)
Leaf(t, n) == [t |-> t, n |-> n, c |-> <<>>]
Dict(c)    == [t |-> "d", n |-> <<>>, c |-> c]

\* Keys of config sources: plain ones and one with a dot.
KeysA == {<<"a">>, <<"b">>, <<"a", "b">>}
\* The second source may also use the name of an Object.prototype member.
KeysB == KeysA \cup ObjectPrototypeKeys
LeavesA == {Leaf("s", <<1>>), Leaf("a", <<1, 2>>)}
LeavesB == {Leaf("s", <<3>>), Leaf("a", <<3, 4>>)}

topKeys(d) == {d[i].k : i \in 1..Len(d)}

\* The dicts with exactly n properties, counted at every depth.
RECURSIVE DictsOfSize(_, _, _)
DictsOfSize(n, K, L) ==
    IF n = 0 THEN {<<>>}
    ELSE UNION {
           LET vals == (IF s = 1 THEN L ELSE {})
                       \cup {Dict(d) : d \in DictsOfSize(s - 1, K, L)}
               rests == DictsOfSize(n - s, K, L)
           IN  UNION { { <<[k |-> key, v |-> val]>> \o rest :
                           rest \in {d \in rests : key \notin topKeys(d)} } :
                       <<key, val>> \in K \X vals }
           : s \in 1..n }

Trees(max, K, L) == UNION {DictsOfSize(n, K, L) : n \in 0..max}

\* The heap after allocating the object graph of a parsed tree, and its root.
RECURSIVE loadDict(_, _)
RECURSIVE loadEntries(_, _, _, _)
loadEntries(h, id, ents, i) ==
    IF i > Len(ents) THEN [h |-> h, id |-> id]
    ELSE LET e == ents[i]
         IN  IF e.v.t = "d"
             THEN LET r == loadDict(h, e.v.c)
                  IN  loadEntries([r.h EXCEPT ![id] = Append(@, [k |-> e.k, v |-> Ref(r.id)])],
                                  id, ents, i + 1)
             ELSE loadEntries([h EXCEPT ![id] =
                                  Append(@, [k |-> e.k, v |-> [t |-> e.v.t, x |-> e.v.n]])],
                              id, ents, i + 1)
loadDict(h, ents) == loadEntries(Append(h, <<>>), Len(h) + 1, ents, 1)

\* What is reachable from object id, as a set of <<route, type, content>>: the
\* route is the sequence of keys from id; property order is forgotten.
RECURSIVE Flat(_, _, _)
Flat(h, id, route) ==
    UNION { LET e == h[id][i]
                r == Append(route, e.k)
            IN  IF isDict(e.v)
                THEN {<<r, "d", <<>>>>} \cup Flat(h, e.v.x[1], r)
                ELSE {<<r, e.v.t, e.v.x>>}
            : i \in 1..Len(h[id]) }

(***************************************************************************)
(* The configuration fold of processFiles.  Object 1 is the accumulator    *)
(* ({} as Dict).                                                           *)
(***************************************************************************)
OutputId == 1

NoStep == [raw |-> <<>>, root |-> 0, ex |-> Returned(<<>>), mg |-> Returned(<<>>),
           did |-> "none"]

\* die(): process.exit(1).  next is where the caller would go on.
dieReturns(next) == next
die(next) == "dead"

\* The pipeline's variables while only the config fold is looked at.
RunIdle ==
    /\ pc = "idle" /\ nSchemas = 0 /\ nFiles = 0 /\ outputOpt = FALSE
    /\ schemaIdx = 0 /\ fileIdx = 0 /\ nBlocks = 0 /\ matches = <<>> /\ evalLog = <<>>
    /\ sandbox = <<>> /\ config = <<>> /\ seen = <<>> /\ lastWrite = <<>>
    /\ failed = FALSE

\* No second replace in progress.
NoScan == [text |-> <<>>, pos |-> 0, st |-> [out |-> <<>>, indent |-> 0, mode |-> 0],
           calls |-> <<>>]

\* The scanner's and the formatter's variables while they are not looked at.
TextIdle ==
    /\ scanIn = <<>> /\ scanOut = <<>> /\ scanState = "idle"
    /\ fmtIn = <<>> /\ fmtIndent = 0 /\ fmtOut = <<>> /\ fmtState = "idle"
    /\ fmtScan = NoScan

InitConfig ==
    /\ cfgFiles \in {<<t>> : t \in Trees(MaxTreeSize, KeysA, LeavesA)}
                    \cup {<<t1, t2>> : <<t1, t2>> \in Trees(MaxPairSize, KeysA, LeavesA)
                                                   \X Trees(MaxPairSize, KeysB, LeavesB)}
    /\ cfgPos = 1
    /\ cfgHeap = <<<<>>>>
    /\ cfgStep = NoStep
    /\ cfgState = "run"
    /\ RunIdle
    /\ TextIdle

\* One round of the reduce: merge(output, explode(object.data, []), [])
ApplyConfig ==
    /\ cfgState = "run"
    /\ cfgPos <= Len(cfgFiles)
    /\ LET raw == cfgFiles[cfgPos]
           ld  == loadDict(cfgHeap, raw)
           ex  == explode(ld.h, ld.id, <<>>)
           mg  == IF ex.ok THEN merge(ex.h, OutputId, ld.id, <<>>) ELSE Returned(<<>>)
       IN  /\ cfgStep' = [raw |-> raw, root |-> ld.id, ex |-> ex, mg |-> mg,
                          did |-> IF ~ex.ok THEN "explodeThrew"
                                  ELSE IF ~mg.ok THEN "mergeThrew" ELSE "merged"]
           /\ cfgHeap' = IF ex.ok /\ mg.ok THEN mg.h ELSE cfgHeap
           /\ cfgState' = IF ex.ok /\ mg.ok THEN "run" ELSE die("run")
           /\ cfgPos' = cfgPos + 1
    /\ UNCHANGED <<cfgFiles, runVars, textVars>>

ConfigDone ==
    /\ cfgState = "run"
    /\ cfgPos > Len(cfgFiles)
    /\ cfgState' = "done"
    /\ UNCHANGED <<cfgFiles, cfgPos, cfgHeap, cfgStep, runVars, textVars>>

NextConfig == ApplyConfig \/ ConfigDone

SpecConfig == InitConfig /\ [][NextConfig]_vars

(***************************************************************************)
(* Claims about merge and explode (checked under SpecConfig).              *)
(***************************************************************************)
\* The heap and root of the last exploded config source.
explodedHeap == cfgStep.ex.h
explodedRoot == cfgStep.root

\* C3: explode is idempotent: for every tree T on which explode(T) succeeds,
\* explode(explode(T)) succeeds too and equals explode(T).
C3_ExplodeIdempotent ==
    (cfgStep.did # "none" /\ cfgStep.ex.ok) =>
        LET again == explode(explodedHeap, explodedRoot, <<>>)
        IN  /\ again.ok
            /\ Flat(again.h, explodedRoot, <<>>) = Flat(explodedHeap, explodedRoot, <<>>)

\* Every node a parsed tree denotes: a property with key k1.k2...kn stands for
\* the dicts k1, k1.k2, ... and the property's value at k1...kn.  id tells two
\* nodes at the same dotted path apart.
RECURSIVE Nodes(_, _, _)
Nodes(d, pre, route) ==
    UNION { LET e == d[i]
                r == Append(route, e.k)
            IN  {[id |-> <<r, j>>, path |-> pre \o SubSeq(e.k, 1, j), t |-> "d"] :
                    j \in 1..(Len(e.k) - 1)}
                \cup {[id |-> <<r, Len(e.k)>>, path |-> pre \o e.k, t |-> e.v.t]}
                \cup (IF e.v.t = "d" THEN Nodes(e.v.c, pre \o e.k, r) ELSE {})
            : i \in 1..Len(d) }

\* The nodes of the config sources applied so far.
AppliedNodes ==
    UNION {Nodes(cfgFiles[f], <<>>, <<<<IF f = 1 THEN "#1" ELSE "#2">>>>) :
           f \in 1..(cfgPos - 1)}

\* Dotted paths where a dict meets a scalar, and where any two nodes cannot merge.
DictScalarConflicts ==
    {n.path : n \in {n \in AppliedNodes : \E m \in AppliedNodes :
                        m.path = n.path /\ n.t = "d" /\ m.t = "s"}}
AllConflicts ==
    {n.path : n \in {n \in AppliedNodes : \E m \in AppliedNodes :
                        /\ m.id # n.id /\ m.path = n.path
                        /\ ~(m.t = "d" /\ n.t = "d") /\ ~(m.t = "a" /\ n.t = "a")}}

UsesPrototypeKey ==
    \E n \in AppliedNodes : \E k \in ObjectPrototypeKeys :
        \E i \in 1..Len(n.path) : n.path[i] = k[1]

\* C4: when a dict meets a scalar at the same key the operation fails, and the
\* error names the full dotted path of the conflicting key, each segment once
\* (in the fold's merge and in the merges explode performs, at any depth).
C4_ConflictNamesFullPath ==
    (cfgStep.did # "none" /\ DictScalarConflicts # {}) =>
        /\ cfgStep.did \in {"explodeThrew", "mergeThrew"}
        /\ (AllConflicts = DictScalarConflicts /\ ~UsesPrototypeKey) =>
              (IF cfgStep.did = "explodeThrew" THEN cfgStep.ex.msg ELSE cfgStep.mg.msg)
                  \in DictScalarConflicts

\* merge(A, B) of the fold's second round: A is the accumulator, B the exploded
\* second source, both on the heap as merge finds them.
MergeA == Flat(explodedHeap, OutputId, <<>>)
MergeB == Flat(explodedHeap, explodedRoot, <<>>)
MergeResult == Flat(cfgStep.mg.h, OutputId, <<>>)

ConflictFree(A, B) ==
    \A a \in A : \A b \in B :
        a[1] = b[1] => (a[2] = "d" /\ b[2] = "d") \/ (a[2] = "a" /\ b[2] = "a")

Merged(A, B) ==
    {a \in A : a[2] # "a" \/ ~\E b \in B : b[1] = a[1]}
    \cup {b \in B : b[2] # "a" \/ ~\E a \in A : a[1] = b[1]}
    \cup {<<a[1], "a", a[3] \o b[3]>> :
            <<a, b>> \in {p \in A \X B : p[1][1] = p[2][1] /\ p[1][2] = "a" /\ p[2][2] = "a"}}

\* C5: for conflict-free trees A and B, merge(A, B) leaves in the destination
\* every key path of both, A's elements then B's at a shared sequence, the
\* recursive merge at a shared dict, and each side's value at a key of its own.
C5_MergeOfConflictFree ==
    (cfgPos = 3 /\ cfgStep.ex.ok /\ ConflictFree(MergeA, MergeB)) =>
        /\ cfgStep.mg.ok
        /\ MergeResult = Merged(MergeA, MergeB)

\* The same, for sources none of whose keys names a member of Object.prototype.
MergeOfConflictFreeOwnKeys ==
    (cfgPos = 3 /\ cfgStep.ex.ok /\ ConflictFree(MergeA, MergeB) /\ ~UsesPrototypeKey) =>
        /\ cfgStep.mg.ok
        /\ MergeResult = Merged(MergeA, MergeB)

(***************************************************************************)
(* The pipeline of processFiles.  What the external collaborators answer   *)
(* (the file system, the parsers, schemaVerify, the scripts of the blocks) *)
(* is drawn at each step.                                                  *)
(***************************************************************************)
CfgIdle ==
    /\ cfgFiles = <<>> /\ cfgPos = 0 /\ cfgHeap = <<>> /\ cfgStep = NoStep
    /\ cfgState = "idle"

\* Who defined a global or set a config key: <<file, block>>; NoTag is the
\* value the key had when the sandbox was built.
NoTag == <<0, 0>>
Idents == {"f"}
ConfigKeys == {"preamble"}

\* What the script of a block does: define a global (function f() {...}, var f),
\* set a key of config (config.ctemplate.preamble = ...), only compute a value,
\* compute a text that itself holds a block, or throw.
BlockOps == {"define", "setConfig", "value", "emitBlock", "throw"}

\* vm.createContext(sandbox): contextifies the object it is given and returns
\* that same object; an object that is a context already is returned as it is.
\* The globals of every context of the run are the properties of sandbox.
createContext(sb) == sb

\* String.prototype.replace with a global regex: all matches are collected from
\* the original text first, then the replacer is called once per match, left to
\* right; what it returns is not searched.
afterReplaceRescans(ms, result) ==
    IF result = "emitBlock" THEN <<0>> \o Tail(ms) ELSE Tail(ms)
afterReplace(ms, result) == Tail(ms)

InitRun ==
    /\ CfgIdle
    /\ TextIdle
    /\ pc = "readConfig"
    /\ nSchemas \in 0..MaxSchemas
    /\ nFiles \in 0..MaxFiles
    /\ outputOpt \in BOOLEAN
    /\ schemaIdx = 1
    /\ fileIdx = 1
    /\ nBlocks = 0
    /\ matches = <<>>
    /\ evalLog = <<>>
    /\ sandbox = [i \in Idents |-> NoTag]
    /\ config = [k \in ConfigKeys |-> NoTag]
    /\ seen = [file |-> 0, block |-> 0, globals |-> [i \in Idents |-> NoTag],
               config |-> [k \in ConfigKeys |-> NoTag]]
    /\ lastWrite = [file |-> 0, preamble |-> NoTag]
    /\ failed = FALSE

\* options.config.map(readPath): every config source is read and parsed
ReadConfig ==
    /\ pc = "readConfig"
    /\ \E ok \in BOOLEAN :
        /\ pc' = IF ok THEN "mergeConfig" ELSE die("mergeConfig")
        /\ failed' = ~ok
    /\ UNCHANGED <<cfgVars, textVars, nSchemas, nFiles, outputOpt, schemaIdx, fileIdx, nBlocks,
                   matches, evalLog, sandbox, config, seen, lastWrite>>

\* the reduce over the config sources: explode and merge, die on a conflict
MergeConfig ==
    /\ pc = "mergeConfig"
    /\ \E ok \in BOOLEAN :
        /\ pc' = IF ok THEN "readSchema" ELSE die("readSchema")
        /\ failed' = ~ok
    /\ UNCHANGED <<cfgVars, textVars, nSchemas, nFiles, outputOpt, schemaIdx, fileIdx, nBlocks,
                   matches, evalLog, sandbox, config, seen, lastWrite>>

\* options.schema.map(readPath): every schema source is read and parsed
ReadSchema ==
    /\ pc = "readSchema"
    /\ \E ok \in BOOLEAN :
        /\ pc' = IF ok THEN "schema" ELSE die("schema")
        /\ failed' = ~ok
    /\ UNCHANGED <<cfgVars, textVars, nSchemas, nFiles, outputOpt, schemaIdx, fileIdx, nBlocks,
                   matches, evalLog, sandbox, config, seen, lastWrite>>

\* one round of the forEach: schemaVerify(config, explode(object.data, []), ...)
VerifySchema ==
    /\ pc = "schema"
    /\ schemaIdx <= nSchemas
    /\ \E ok \in BOOLEAN :
        /\ pc' = IF ok THEN "schema" ELSE die("schema")
        /\ failed' = ~ok
    /\ schemaIdx' = schemaIdx + 1
    /\ UNCHANGED <<cfgVars, textVars, nSchemas, nFiles, outputOpt, fileIdx, nBlocks,
                   matches, evalLog, sandbox, config, seen, lastWrite>>

\* the output option check, config.ctemplate and the sandbox object
BuildSandbox ==
    /\ pc = "schema"
    /\ schemaIdx > nSchemas
    /\ LET bad == outputOpt /\ nFiles # 1
       IN  /\ pc' = IF bad THEN die("file") ELSE "file"
           /\ failed' = bad
    /\ UNCHANGED <<cfgVars, textVars, nSchemas, nFiles, outputOpt, schemaIdx, fileIdx, nBlocks,
                   matches, evalLog, sandbox, config, seen, lastWrite>>

\* the head of one round of the for loop: the output path, the input file, and
\* the matches of the block regex in its text
StartFile ==
    /\ pc = "file"
    /\ fileIdx <= nFiles
    /\ \E isTemplate \in BOOLEAN, exists \in BOOLEAN, n \in 0..MaxBlocks :
        LET bad == (~outputOpt /\ ~isTemplate) \/ ~exists
        IN  /\ pc' = IF bad THEN die("blocks") ELSE "blocks"
            /\ failed' = bad
            /\ nBlocks' = IF bad THEN 0 ELSE n
            /\ matches' = IF bad THEN <<>> ELSE [i \in 1..n |-> i]
    /\ evalLog' = <<>>
    /\ UNCHANGED <<cfgVars, textVars, nSchemas, nFiles, outputOpt, schemaIdx, fileIdx,
                   sandbox, config, seen, lastWrite>>

\* the replacer: vm.runInContext(code, context), context = createContext(sandbox)
EvalBlock ==
    /\ pc = "blocks"
    /\ matches # <<>>
    /\ \E op \in BlockOps :
        LET blk     == Head(matches)
            tag     == <<fileIdx, blk>>
            context == createContext(sandbox)
        IN  /\ seen' = [file |-> fileIdx, block |-> blk, globals |-> context,
                        config |-> config]
            /\ evalLog' = Append(evalLog, [blk |-> blk, op |-> op])
            /\ sandbox' = IF op = "define"
                          THEN [context EXCEPT !["f"] = tag] ELSE context
            /\ config' = IF op = "setConfig"
                         THEN [config EXCEPT !["preamble"] = tag] ELSE config
            /\ IF op = "throw"
               THEN \* caught at the end of the loop body: die(e.message)
                    /\ pc' = die("file")
                    /\ failed' = TRUE
                    /\ fileIdx' = fileIdx + 1
                    /\ matches' = <<>>
               ELSE /\ pc' = "blocks"
                    /\ failed' = FALSE
                    /\ fileIdx' = fileIdx
                    /\ matches' = afterReplace(matches, op)
    /\ UNCHANGED <<cfgVars, textVars, nSchemas, nFiles, outputOpt, schemaIdx, nBlocks, lastWrite>>

\* fs.writeFileSync(output, config.ctemplate.preamble ? preamble + result : result)
WriteOutput ==
    /\ pc = "blocks"
    /\ matches = <<>>
    /\ lastWrite' = [file |-> fileIdx, preamble |-> config["preamble"]]
    /\ fileIdx' = fileIdx + 1
    /\ pc' = "file"
    /\ UNCHANGED <<cfgVars, textVars, nSchemas, nFiles, outputOpt, schemaIdx, nBlocks, matches,
                   evalLog, sandbox, config, seen, failed>>

RunDone ==
    /\ pc = "file"
    /\ fileIdx > nFiles
    /\ pc' = "done"
    /\ UNCHANGED <<cfgVars, textVars, nSchemas, nFiles, outputOpt, schemaIdx, fileIdx, nBlocks,
                   matches, evalLog, sandbox, config, seen, lastWrite, failed>>

NextRun ==
    \/ ReadConfig \/ MergeConfig \/ ReadSchema \/ VerifySchema \/ BuildSandbox
    \/ StartFile \/ EvalBlock \/ WriteOutput \/ RunDone

SpecRun == InitRun /\ [][NextRun]_vars

(***************************************************************************)
(* Claims about the pipeline (checked under SpecRun).                      *)
(***************************************************************************)
Evaluating == seen.file > 0

\* C1: an identifier defined by a block of one file is not reachable from a
\* block of a file processed later: what a block sees defined was defined by a
\* block of its own file.
C1_ScopeIsolatedPerFile ==
    Evaluating => \A i \in Idents : seen.globals[i] = NoTag \/ seen.globals[i][1] = seen.file

\* C2: a mutation of config made by a block of a file is observed neither by a
\* block nor by the preamble prefixing of a file processed later: every file
\* starts from the configuration as it was when template processing began.
C2_ConfigIsolatedPerFile ==
    /\ Evaluating =>
          \A k \in ConfigKeys : seen.config[k] = NoTag \/ seen.config[k][1] = seen.file
    /\ lastWrite.file > 0 =>
          (lastWrite.preamble = NoTag \/ lastWrite.preamble[1] = lastWrite.file)

\* C8: the run is fail-fast: schema documents are verified one at a time in
\* discovery order, and once die() has been called nothing of the pipeline
\* happens any more; the step that fails writes no output.
C8_FailFast ==
    [][ /\ failed => UNCHANGED runVars
        /\ schemaIdx' # schemaIdx => (pc = "schema" /\ schemaIdx' = schemaIdx + 1)
        /\ failed' => lastWrite' = lastWrite ]_vars

\* A block of the second file threw after the first file was written.
C8_Witness ==
    failed /\ pc = "dead" /\ seen.file = 2 /\ lastWrite.file = 1 /\ Len(evalLog) = MaxBlocks

\* The blocks of the current file evaluated before the last one that did op.
EarlierBlocksDoing(op) ==
    {j \in 1..(Len(evalLog) - 1) : evalLog[j].op = op}
Last(S) == CHOOSE j \in S : \A i \in S : i <= j
\* What block seen.block must find as the last writer, given the earlier blocks
\* of its file.
SeesEarlierBlocks(tag, op) ==
    IF EarlierBlocksDoing(op) = {}
    THEN tag = NoTag \/ tag[1] # seen.file
    ELSE tag = <<seen.file, Last(EarlierBlocksDoing(op))>>

\* C9: within one file the blocks are evaluated once each, left to right, in
\* one scope: block k sees the definitions and config mutations of blocks
\* 1..k-1 of the file and none of a later block, and a block's text is not
\* scanned for blocks.
C9_BlocksInOrderOneScope ==
    /\ \A i \in 1..Len(evalLog) : evalLog[i].blk = i
    /\ Len(evalLog) <= nBlocks
    /\ (pc = "blocks" => Len(evalLog) + Len(matches) = nBlocks)
    /\ (pc \in {"file", "done"} /\ lastWrite.file = fileIdx - 1 /\ fileIdx > 1) =>
           Len(evalLog) = nBlocks
    /\ (Len(evalLog) > 0 /\ pc \in {"blocks", "file", "done"}) =>
           /\ seen.block = Len(evalLog)
           /\ SeesEarlierBlocks(seen.globals["f"], "define")
           /\ SeesEarlierBlocks(seen.config["preamble"], "setConfig")

\* The second block of the second file sees what the first block defined and set.
C9_Witness ==
    /\ seen.file = 2 /\ seen.block = 2 /\ Len(evalLog) = 2
    /\ seen.globals["f"] = <<2, 1>>
    /\ sandbox["f"] = <<2, 2>>
    /\ lastWrite.file = 1

(***************************************************************************)
(* The block scanner: text.replace(                                        *)
(*   /(?:\r?\n?<\?\?|<\?)(.+?)(?:\?\?>\r?\n?|\?>)/gs, replacer).           *)
(* A text is the sequence of its characters.                               *)
(***************************************************************************)
LF == "\n"
CR == "\r"

startsWith(text, p, lit) ==
    /\ p + Len(lit) - 1 <= Len(text)
    /\ \A i \in 1..Len(lit) : text[p + i - 1] = lit[i]

\* The ways (?:\r?\n?<\?\?|<\?) can match, in the order backtracking tries them.
openMarkers ==
    << <<CR, LF, "<", "?", "?">>, <<CR, "<", "?", "?">>, <<LF, "<", "?", "?">>,
       <<"<", "?", "?">>, <<"<", "?">> >>

\* Where (?:\?\?>\r?\n?|\?>) ends when tried at c; 0 when it does not match.
closeEndShortFirst(text, c) ==
    IF startsWith(text, c, <<"?", ">">>) THEN c + 2 ELSE 0
closeEnd(text, c) ==
    IF startsWith(text, c, <<"?", "?", ">">>)
    THEN LET e  == c + 3
             e1 == IF e <= Len(text) /\ text[e] = CR THEN e + 1 ELSE e
         IN  IF e1 <= Len(text) /\ text[e1] = LF THEN e1 + 1 ELSE e1
    ELSE IF startsWith(text, c, <<"?", ">">>) THEN c + 2
    ELSE 0

\* (.+?) from q: the least c > q at which the close marker matches; 0 if none.
lazyCodeEnd(text, q) ==
    LET cs == {c \in (q + 1)..Len(text) : closeEnd(text, c) > 0}
    IN  IF cs = {} THEN 0 ELSE CHOOSE c \in cs : \A d \in cs : c <= d

\* The match of the regex starting at p, if there is one.
matchAt(text, p) ==
    LET ok(i) == /\ startsWith(text, p, openMarkers[i])
                 /\ lazyCodeEnd(text, p + Len(openMarkers[i])) > 0
        is == {i \in 1..Len(openMarkers) : ok(i)}
    IN  IF is = {} THEN [found |-> FALSE, code |-> <<>>, end |-> p]
        ELSE LET i == CHOOSE i \in is : \A j \in is : i <= j
                 q == p + Len(openMarkers[i])
                 c == lazyCodeEnd(text, q)
             IN  [found |-> TRUE, code |-> SubSeq(text, q, c - 1),
                  end |-> closeEnd(text, c)]

\* vm.runInContext(code, context): the script evaluator is external.  A script
\* ending in "u" yields undefined, any other yields a text that shows the code.
runInContext(code) ==
    IF code[Len(code)] = "u" THEN [undefined |-> TRUE, text |-> <<>>]
    ELSE [undefined |-> FALSE, text |-> <<"[">> \o code \o <<"]">>]

\* (_, code) => { const output = ...; return output === undefined ? "" : output }
replacer(code) ==
    LET output == runInContext(code)
    IN  IF output.undefined THEN <<>> ELSE output.text

\* String.prototype.replace with the global regex, from position p on.
RECURSIVE replaceFrom(_, _)
replaceFrom(text, p) ==
    IF p > Len(text) THEN <<>>
    ELSE LET m == matchAt(text, p)
         IN  IF m.found THEN replacer(m.code) \o replaceFrom(text, m.end)
             ELSE <<text[p]>> \o replaceFrom(text, p + 1)

\* Templates as their author wrote them: texts and blocks in turn.
Text(s) == [kind |-> "text", s |-> s, lo |-> FALSE, lc |-> FALSE]
\* lo: opened with <?? ; lc: closed with ??>
Block(lo, code, lc) == [kind |-> "block", s |-> code, lo |-> lo, lc |-> lc]

RECURSIVE SeqsUpTo(_, _)
SeqsUpTo(A, n) ==
    IF n = 0 THEN {<<>>}
    ELSE SeqsUpTo(A, n - 1) \cup {Append(t, a) : <<t, a>> \in SeqsUpTo(A, n - 1) \X A}

TextChars == {"x", LF, CR}
Texts == SeqsUpTo(TextChars, MaxText)
OuterTexts == {<<>>, <<"x">>, <<LF>>}
\* Scripts: none holds the close marker, begins or ends with "?".
Codes == { <<"c">>, <<"u">>, <<"c", LF, "c">>, <<"c", "?", "c">>, <<"c", ">", "u">>,
           <<"<", "c">> }
Blocks(C) == {Block(lo, code, lc) : <<lo, code, lc>> \in BOOLEAN \X C \X BOOLEAN}

Templates ==
    {<<Text(t0), b, Text(t1)>> : <<t0, b, t1>> \in Texts \X Blocks(Codes) \X Texts}
    \cup {<<Text(t0), b1, Text(t1), b2, Text(t2)>> :
            <<t0, b1, t1, b2, t2>> \in OuterTexts \X Blocks({<<"c">>}) \X Texts
                                       \X Blocks({<<"c">>}) \X OuterTexts}

\* The characters of a template.
written(seg) ==
    IF seg.kind = "text" THEN seg.s
    ELSE (IF seg.lo THEN <<"<", "?", "?">> ELSE <<"<", "?">>) \o seg.s
         \o (IF seg.lc THEN <<"?", "?", ">">> ELSE <<"?", ">">>)
RECURSIVE flatten(_)
flatten(segs) == IF segs = <<>> THEN <<>> ELSE written(Head(segs)) \o flatten(Tail(segs))

InitScan ==
    /\ CfgIdle
    /\ RunIdle
    /\ scanIn \in Templates
    /\ scanOut = <<>>
    /\ scanState = "in"
    /\ fmtIn = <<>> /\ fmtIndent = 0 /\ fmtOut = <<>> /\ fmtState = "idle"
    /\ fmtScan = NoScan

\* fs.readFileSync(file, "utf8").replace(regex, replacer)
ScanReplace ==
    /\ scanState = "in"
    /\ scanOut' = replaceFrom(flatten(scanIn), 1)
    /\ scanState' = "done"
    /\ UNCHANGED <<cfgVars, runVars, fmtVars, scanIn>>

NextScan == ScanReplace

SpecScan == InitScan /\ [][NextScan]_vars

(***************************************************************************)
(* Claims about the block scanner (checked under SpecScan).                *)
(***************************************************************************)
\* A newline is LF, with an optional CR before it, or a CR alone.
withoutNewlineAtEnd(t) ==
    LET a == IF t # <<>> /\ t[Len(t)] = LF THEN SubSeq(t, 1, Len(t) - 1) ELSE t
    IN  IF a # <<>> /\ a[Len(a)] = CR THEN SubSeq(a, 1, Len(a) - 1) ELSE a
withoutNewlineAtStart(t) ==
    LET a == IF t # <<>> /\ t[1] = CR THEN Tail(t) ELSE t
    IN  IF a # <<>> /\ a[1] = LF THEN Tail(a) ELSE a

\* What the template stands for: each text less the newline the marker before
\* it (a long close) and the marker after it (a long open) ask to remove, each
\* block replaced by what its script yields.
ExpectedOutput(segs) ==
    LET piece(i) ==
            IF segs[i].kind = "block" THEN replacer(segs[i].s)
            ELSE LET t1 == IF i > 1 /\ segs[i - 1].lc
                           THEN withoutNewlineAtStart(segs[i].s) ELSE segs[i].s
                 IN  IF i < Len(segs) /\ segs[i + 1].lo
                     THEN withoutNewlineAtEnd(t1) ELSE t1
        join[i \in 0..Len(segs)] == IF i = 0 THEN <<>> ELSE join[i - 1] \o piece(i)
    IN  join[Len(segs)]

\* C6: the replaced span is the block plus exactly the newlines its markers
\* ask for: <?? takes the one newline before it, <? none, ??> the one newline
\* after it, ?> none, each side on its own; all other text is copied unchanged.
C6_SpanIsBlockPlusRequestedNewlines ==
    scanState = "done" => scanOut = ExpectedOutput(scanIn)

\* "x\n<??c?>\nx" gives "x[c]\nx": the newline before goes, the one after stays.
C6_Witness ==
    /\ scanState = "done"
    /\ scanIn = <<Text(<<"x", LF>>), Block(TRUE, <<"c">>, FALSE), Text(<<LF, "x">>)>>
    /\ scanOut = <<"x", "[", "c", "]", LF, "x">>

(***************************************************************************)
(* Clib.format(code, initialIndent): three replace passes and trimRight.   *)
(***************************************************************************)
TAB == "\t"
SP == " "
DQ == "\""
SQ == "'"
BS == "\\"

at(text, p) == IF p >= 1 /\ p <= Len(text) THEN text[p] ELSE ""

\* Length of the longest run of characters of S from p on.
RECURSIVE run(_, _, _)
run(text, p, S) == IF at(text, p) \in S THEN 1 + run(text, p + 1, S) ELSE 0

\* "(?:\\"|[^"])+" after its opening quote: i is the position, n the number
\* of items taken.  Greedy: one more item first (\" before [^"]), the closing
\* quote when that fails.  The position after the match; 0 if there is none.
RECURSIVE stringEnd(_, _, _)
stringEnd(text, i, n) ==
    IF i > Len(text) THEN 0
    ELSE LET esc   == IF text[i] = BS /\ at(text, i + 1) = DQ
                      THEN stringEnd(text, i + 2, n + 1) ELSE 0
             other == IF esc = 0 /\ text[i] # DQ
                      THEN stringEnd(text, i + 1, n + 1) ELSE 0
         IN  IF esc > 0 THEN esc
             ELSE IF other > 0 THEN other
             ELSE IF n >= 1 /\ text[i] = DQ THEN i + 1
             ELSE 0

\* ("(?:\\"|[^"])+"|'\\''|'[^']') at p: the position after it; 0 if no match.
literalEnd(text, p) ==
    IF at(text, p) = DQ THEN stringEnd(text, p + 1, 0)
    ELSE IF startsWith(text, p, <<SQ, BS, SQ, SQ>>) THEN p + 4
    ELSE IF at(text, p) = SQ /\ at(text, p + 1) \notin {"", SQ} /\ at(text, p + 2) = SQ
         THEN p + 3
    ELSE 0

\* .replace(/(literal)|([\t\n\r]+)/g, (_, string, _ws) => string ? string : "")
RECURSIVE stripFrom(_, _)
stripFrom(text, p) ==
    IF p > Len(text) THEN <<>>
    ELSE LET e == literalEnd(text, p)
             w == run(text, p, {TAB, LF, CR})
         IN  IF e > 0 THEN SubSeq(text, p, e - 1) \o stripFrom(text, e)
             ELSE IF w > 0 THEN stripFrom(text, p + w)
             ELSE <<text[p]>> \o stripFrom(text, p + 1)

tabs(n) == [i \in 1..n |-> TAB]

\* indent.slice(1), the indent being a number of tabs
slice1(indent) == IF indent > 0 THEN indent - 1 ELSE 0

\* \s of the regex, among the characters of the texts
Whitespace == {SP, TAB, LF, CR}

\* One match of /(=\s*\{)|(\{)|([,;}])|(literal)/g at p and its callback, or
\* one character that no alternative matches.  st holds the output so far and
\* the callback's closure variables indent and mode.  The result names the
\* alternative taken, what was put out, and where the scan goes on.
reflowStep(text, p, st) ==
    LET c  == text[p]
        ws == run(text, p + 1, Whitespace)
        e  == literalEnd(text, p)
        emit(kind, t, ind, md, next) ==
            [kind |-> kind, put |-> t, next |-> next,
             st |-> [out |-> st.out \o t, indent |-> ind, mode |-> md]]
    IN  IF c = "=" /\ at(text, p + 1 + ws) = "{"
        THEN emit("open1", <<"=", SP, "{", LF>> \o tabs(st.indent + 1),
                  st.indent + 1, st.mode + 1, p + ws + 2)
        ELSE IF c = "{"
        THEN emit("open2", <<"{", LF>> \o tabs(st.indent + 1), st.indent + 1,
                  IF st.mode > 0 THEN st.mode + 1 ELSE 0, p + 1)
        ELSE IF c = "}"
        THEN emit("}", <<LF>> \o tabs(slice1(st.indent)) \o <<"}">>, slice1(st.indent),
                  IF st.mode > 0 THEN st.mode - 1 ELSE 0, p + 1)
        ELSE IF c = ";"
        THEN emit(";", <<";", LF>> \o tabs(st.indent), st.indent, st.mode, p + 1)
        ELSE IF c = ","
        THEN emit(",", IF st.mode > 0 THEN <<",", LF>> \o tabs(st.indent) ELSE <<",">>,
                  st.indent, st.mode, p + 1)
        ELSE IF e > 0
        THEN emit("string", SubSeq(text, p, e - 1), st.indent, st.mode, e)
        ELSE emit("none", <<c>>, st.indent, st.mode, p + 1)

\* .replace(/(=\s*\{)|(\{)|([,;}])|(literal)/g, callback) from p on.
RECURSIVE reflowFrom(_, _, _)
reflowFrom(text, p, st) ==
    IF p > Len(text) THEN st
    ELSE LET r == reflowStep(text, p, st) IN reflowFrom(text, r.next, r.st)

\* .replace(/\n(\t*)[ ]+|\n[\t ]+\n/g, "\n$1")
RECURSIVE collapseFrom(_, _)
collapseFrom(text, p) ==
    IF p > Len(text) THEN <<>>
    ELSE IF text[p] = LF
    THEN LET t == run(text, p + 1, {TAB})
             s == run(text, p + 1 + t, {SP})
             b == run(text, p + 1, {TAB, SP})
         IN  IF s >= 1 THEN <<LF>> \o tabs(t) \o collapseFrom(text, p + 1 + t + s)
             ELSE IF b >= 1 /\ at(text, p + 1 + b) = LF
             THEN <<LF>> \o collapseFrom(text, p + b + 2)
             ELSE <<LF>> \o collapseFrom(text, p + 1)
    ELSE <<text[p]>> \o collapseFrom(text, p + 1)

RECURSIVE trimRight(_)
trimRight(text) ==
    IF text # <<>> /\ text[Len(text)] \in Whitespace
    THEN trimRight(SubSeq(text, 1, Len(text) - 1)) ELSE text

\* The callback's closure after the second pass: out, indent, mode.
reflow(code, initialIndent) ==
    reflowFrom(stripFrom(code, 1), 1, [out |-> <<>>, indent |-> initialIndent, mode |-> 0])

format(code, initialIndent) ==
    trimRight(collapseFrom(reflow(code, initialIndent).out, 1))

\* Code strings as their author wrote them: a sequence of tokens.
Sym(s) == [lit |-> FALSE, s |-> s]
Lit(s) == [lit |-> TRUE, s |-> s]
Symbols == {Sym(<<c>>) : c \in {"{", "}", ";", ",", "=", SP, TAB, LF, "a"}}
Literals ==
    { Lit(<<DQ, DQ>>), Lit(<<DQ, "a", ";", "b", DQ>>), Lit(<<DQ, "{", DQ>>),
      Lit(<<DQ, BS, DQ, DQ>>), Lit(<<DQ, TAB, DQ>>), Lit(<<DQ, "a", ",", DQ>>),
      Lit(<<SQ, "{", SQ>>), Lit(<<SQ, BS, SQ, SQ>>) }
Tokens == Symbols \cup Literals

RECURSIVE spell(_)
spell(toks) == IF toks = <<>> THEN <<>> ELSE Head(toks).s \o spell(Tail(toks))

InitFormat ==
    /\ CfgIdle
    /\ RunIdle
    /\ scanIn = <<>> /\ scanOut = <<>> /\ scanState = "idle"
    /\ fmtIn \in SeqsUpTo(Tokens, MaxTokens)
    /\ fmtIndent \in 0..MaxIndent
    /\ fmtOut = <<>>
    /\ fmtState = "in"
    /\ fmtScan = NoScan

\* C.format(code, initialIndent)
Format ==
    /\ fmtState = "in"
    /\ fmtOut' = format(spell(fmtIn), fmtIndent)
    /\ fmtState' = "done"
    /\ UNCHANGED <<cfgVars, runVars, scanVars, fmtIn, fmtIndent, fmtScan>>

NextFormat == Format

SpecFormat == InitFormat /\ [][NextFormat]_vars

(***************************************************************************)
(* Claims about format (checked under SpecFormat).                         *)
(***************************************************************************)
\* The lines of a text: its pieces between newlines.
RECURSIVE Lines(_)
Lines(text) ==
    LET n == run(text, 1, {c \in {at(text, i) : i \in 1..Len(text)} : c # LF})
    IN  IF n = Len(text) THEN <<text>>
        ELSE <<SubSeq(text, 1, n)>> \o Lines(SubSeq(text, n + 2, Len(text)))

\* Braces outside literals pair up, none closed before it is opened.
depthAfter(toks, n) ==
    Cardinality({i \in 1..n : toks[i] = Sym(<<"{">>)})
    - Cardinality({i \in 1..n : toks[i] = Sym(<<"}">>)})
BraceBalanced(toks) ==
    /\ \A n \in 1..Len(toks) : depthAfter(toks, n) >= 0
    /\ depthAfter(toks, Len(toks)) = 0

NoTwoBlankLinesInARow(text) ==
    LET ls == Lines(text)
    IN  \A i \in 1..(Len(ls) - 1) : ~(ls[i] = <<>> /\ ls[i + 1] = <<>>)
NoWhitespaceOnlyLine(text) ==
    LET ls == Lines(text)
    IN  \A i \in 1..Len(ls) :
            ls[i] # <<>> => \E k \in 1..Len(ls[i]) : ls[i][k] \notin {SP, TAB}
NoLineEndsInSpaceOrTab(text) ==
    LET ls == Lines(text)
    IN  \A i \in 1..Len(ls) : ls[i] # <<>> => ls[i][Len(ls[i])] \notin {SP, TAB}

\* C7: for every brace-balanced input and every initial indent, the output of
\* format has no two consecutive blank lines, no whitespace-only line and no
\* line that ends in a space or a tab.
C7_OutputWhitespaceClean ==
    (fmtState = "done" /\ BraceBalanced(fmtIn)) =>
        /\ NoTwoBlankLinesInARow(fmtOut)
        /\ NoWhitespaceOnlyLine(fmtOut)
        /\ NoLineEndsInSpaceOrTab(fmtOut)

\* The literals of a code string, in order.
LiteralsOf(toks) == SelectSeq(toks, LAMBDA t : t.lit)

\* The literals occur in the text from p on, whole, in order, without overlap.
RECURSIVE occurInOrder(_, _, _)
occurInOrder(text, p, lits) ==
    IF lits = <<>> THEN TRUE
    ELSE LET hits == {q \in p..Len(text) : startsWith(text, q, Head(lits).s)}
         IN  /\ hits # {}
             /\ occurInOrder(text, (CHOOSE q \in hits : \A r \in hits : q <= r)
                                   + Len(Head(lits).s), Tail(lits))

\* The code string with a plain word in place of each literal.
withoutLiterals(toks) ==
    [i \in 1..Len(toks) |-> IF toks[i].lit THEN Sym(<<"a">>) ELSE toks[i]]

\* C10: every string literal of the input (the empty one, those holding
\* braces, commas, semicolons, tabs or escaped quotes) and every character
\* literal is in the output character for character, nothing inserted in it
\* and nothing removed from it, and the delimiters inside it change neither
\* the indent nor the initializer mode.
C10_LiteralsPreserved ==
    fmtState = "done" =>
        /\ occurInOrder(fmtOut, 1, LiteralsOf(fmtIn))
        /\ reflow(spell(fmtIn), fmtIndent).indent
             = reflow(spell(withoutLiterals(fmtIn)), fmtIndent).indent
        /\ reflow(spell(fmtIn), fmtIndent).mode
             = reflow(spell(withoutLiterals(fmtIn)), fmtIndent).mode

\* Apart from the empty literal "" the literals of these inputs are kept.
LiteralsPreservedUnlessEmptyLiteral ==
    (\A i \in 1..Len(fmtIn) : fmtIn[i] # Lit(<<DQ, DQ>>)) => C10_LiteralsPreserved

(***************************************************************************)
(* Clib.format with its second replace followed match by match.            *)
(***************************************************************************)
ScanTokens ==
    {Sym(<<c>>) : c \in {"{", "}", "=", ",", ";"}}
    \cup {Lit(<<DQ, "{", DQ>>), Lit(<<DQ, DQ>>)}

InitReflow ==
    /\ CfgIdle
    /\ RunIdle
    /\ scanIn = <<>> /\ scanOut = <<>> /\ scanState = "idle"
    /\ fmtIn \in SeqsUpTo(ScanTokens, MaxScanTokens)
    /\ fmtIndent \in 0..MaxIndent
    /\ fmtOut = <<>>
    /\ fmtState = "in"
    /\ fmtScan = NoScan

\* let indent = "\t".repeat(initialIndent || 0); let mode = 0; first replace
StripWhitespace ==
    /\ fmtState = "in"
    /\ fmtScan' = [text |-> stripFrom(spell(fmtIn), 1), pos |-> 1,
                   st |-> [out |-> <<>>, indent |-> fmtIndent, mode |-> 0],
                   calls |-> <<>>]
    /\ fmtState' = "scan"
    /\ UNCHANGED <<cfgVars, runVars, scanVars, fmtIn, fmtIndent, fmtOut>>

\* second replace: the next match and its callback, or a character copied
ReflowStep ==
    /\ fmtState = "scan"
    /\ fmtScan.pos <= Len(fmtScan.text)
    /\ LET r == reflowStep(fmtScan.text, fmtScan.pos, fmtScan.st)
       IN  fmtScan' = [text |-> fmtScan.text, pos |-> r.next, st |-> r.st,
                       calls |-> IF r.kind = "none" THEN fmtScan.calls
                                 ELSE Append(fmtScan.calls,
                                             [kind |-> r.kind, put |-> r.put,
                                              indent |-> r.st.indent, mode |-> r.st.mode])]
    /\ UNCHANGED <<cfgVars, runVars, scanVars, fmtIn, fmtIndent, fmtOut, fmtState>>

\* third replace and trimRight
CollapseAndTrim ==
    /\ fmtState = "scan"
    /\ fmtScan.pos > Len(fmtScan.text)
    /\ fmtOut' = trimRight(collapseFrom(fmtScan.st.out, 1))
    /\ fmtState' = "done"
    /\ UNCHANGED <<cfgVars, runVars, scanVars, fmtIn, fmtIndent, fmtScan>>

NextReflow == StripWhitespace \/ ReflowStep \/ CollapseAndTrim

SpecReflow == InitReflow /\ [][NextReflow]_vars

\* Followed match by match, format returns what it returns in one go.
StepwiseIsFormat ==
    fmtState = "done" => fmtOut = format(spell(fmtIn), fmtIndent)

(***************************************************************************)
(* Claim about the scan of format (checked under SpecReflow).              *)
(***************************************************************************)
\* The brace at k is an initializer start: "=", white space at most, "{".
InitializerStart(toks, k) ==
    /\ toks[k] = Sym(<<"{">>)
    /\ \E j \in 1..(k - 1) :
          /\ toks[j] = Sym(<<"=">>)
          /\ \A i \in (j + 1)..(k - 1) : toks[i] \in {Sym(<<SP>>), Sym(<<TAB>>), Sym(<<LF>>)}

\* The braces open after the first k tokens, outermost first: TRUE for one
\* opened by an initializer start.
RECURSIVE OpenBraces(_, _)
OpenBraces(toks, k) ==
    IF k = 0 THEN <<>>
    ELSE LET before == OpenBraces(toks, k - 1)
         IN  IF toks[k] = Sym(<<"{">>) THEN Append(before, InitializerStart(toks, k))
             ELSE IF toks[k] = Sym(<<"}">>) /\ before # <<>>
                  THEN SubSeq(before, 1, Len(before) - 1)
             ELSE before

InInitializer(open) == \E i \in 1..Len(open) : open[i]

\* The delimiters of the code string in order: where each is, what it is, and
\* the braces open after it.
RECURSIVE Delimiters(_, _)
Delimiters(toks, k) ==
    IF k = 0 THEN <<>>
    ELSE IF toks[k] \in {Sym(<<"{">>), Sym(<<"}">>), Sym(<<",">>), Sym(<<";">>)}
    THEN Append(Delimiters(toks, k - 1),
                [kind |-> IF InitializerStart(toks, k) THEN "open1"
                          ELSE IF toks[k] = Sym(<<"{">>) THEN "open2"
                          ELSE toks[k].s[1],
                 open |-> OpenBraces(toks, k)])
    ELSE Delimiters(toks, k - 1)

\* The callback's calls for delimiters so far.
DelimiterCalls == SelectSeq(fmtScan.calls, LAMBDA c : c.kind # "string")

\* C11: during the scan of a brace-balanced input the mode stays between 0 and
\* the nesting depth and is positive exactly inside a not yet closed brace that
\* an initializer start opened; so a comma gets a newline and the indent iff it
\* is inside an initializer list, a semicolon always gets a newline and the
\* current indent, and at the end the mode is 0 and the indent the initial one.
C11_ModeTracksInitializerNesting ==
    (fmtState \in {"scan", "done"} /\ BraceBalanced(fmtIn)) =>
        LET ds   == Delimiters(fmtIn, Len(fmtIn))
            cs   == DelimiterCalls
            n    == Len(cs)
            open == IF n = 0 \/ n > Len(ds) THEN <<>> ELSE ds[n].open
            mode == fmtScan.st.mode
        IN  /\ n <= Len(ds)
            /\ \A k \in 1..n : cs[k].kind = ds[k].kind
            /\ 0 <= mode /\ mode <= Len(open)
            /\ mode > 0 <=> InInitializer(open)
            /\ \A k \in 1..n :
                  /\ cs[k].kind = "," =>
                        cs[k].put = IF InInitializer(ds[k].open)
                                    THEN <<",", LF>> \o tabs(fmtIndent + Len(ds[k].open))
                                    ELSE <<",">>
                  /\ cs[k].kind = ";" =>
                        cs[k].put = <<";", LF>> \o tabs(fmtIndent + Len(ds[k].open))
            /\ fmtState = "done" =>
                  /\ n = Len(ds)
                  /\ mode = 0
                  /\ fmtScan.st.indent = fmtIndent

\* With no empty literal "" in the input the scan behaves as claimed.
NoEmptyLiteral == \A i \in 1..Len(fmtIn) : fmtIn[i] # Lit(<<DQ, DQ>>)
ModeTracksInitializerNestingUnlessEmptyLiteral ==
    NoEmptyLiteral => C11_ModeTracksInitializerNesting

====
